---------------------------- MODULE Spec2Model ----------------------------
(***************************************************************************)
(* College PR Event Dashboard API (src/backend/main.py).                   *)
(*                                                                         *)
(* The module-level stores and counters of main.py are the state.  Every   *)
(* handler is an `async def` without a single await, so the event loop     *)
(* runs each one to completion: one handler = one atomic action.           *)
(*                                                                         *)
(* The created_at stamps (datetime.now().isoformat()) are not modelled: no *)
(* handler reads them back and no property below speaks of them.  The      *)
(* reaction symbols are written by the names of the ReactionType members.  *)
(***************************************************************************)
EXTENDS Integers, Sequences, FiniteSets, TLC

VARIABLES
    events_db,            \* list of event records, insertion order
    reactions_db,         \* event id -> tally
    feedback_db,          \* list of feedback records, insertion order
    announcement_db,      \* the single announcement record
    event_id_counter,
    feedback_id_counter,
    resp,                 \* the last request served and the response it got
    calls                 \* history: number of successful calls per mutating handler

vars == <<events_db, reactions_db, feedback_db, announcement_db,
          event_id_counter, feedback_id_counter, resp, calls>>

stores == <<events_db, reactions_db, feedback_db, announcement_db,
            event_id_counter, feedback_id_counter>>

-----------------------------------------------------------------------------
(* Bounds of the exploration *)

\* successful state-growing calls (create_event, add_reaction, submit_feedback) per run
MaxWrites == 4

(* Request values the clients send *)

NoSuchEvent == 99999

ReqEventIds == {1, 4, NoSuchEvent}

EventInputs ==
    { [title |-> "Tech Talk", description |-> "A talk", date |-> "2026-05-01T10:00:00"],
      [title |-> "Hackathon", description |-> "24 hours", date |-> "not a date"] }

FeedbackInputs ==
    { [message |-> "Great event!", rating |-> 5],
      [message |-> "Too long", rating |-> "None"] }

AnnouncementInputs == { "Hello", "Doors open at 6" }

-----------------------------------------------------------------------------
(* Data of the program *)

ReactionType == {"FIRE", "WOW", "CLAP", "HEART"}

ZeroTally == [c \in ReactionType |-> 0]

DefaultAnnouncement ==
    "Welcome to Event Pulse - Your hub for campus events and engagement!"

default_events ==
    << [title |-> "KMIT Evening Saanjh", description |-> "cultural fest",
        date |-> "2026-03-20T18:00:00"],
       [title |-> "Patang Utsav", description |-> "kite festival",
        date |-> "2026-04-05T15:00:00"],
       [title |-> "V-MUN", description |-> "model united nations",
        date |-> "2026-04-15T09:00:00"] >>

(* Variant of SeedOne: the seeder forgets the tally of the event it adds. *)
SeedOne_no_tally(s, event_data) ==
    [ events    |-> Append(s.events,
                           [id |-> s.counter, title |-> event_data.title,
                            description |-> event_data.description,
                            date |-> event_data.date]),
      reactions |-> s.reactions,
      counter   |-> s.counter + 1 ]

(* events_db.append(event); reactions_db[id] = zero tally; counter += 1 *)
SeedOne(s, event_data) ==
    [ events    |-> Append(s.events,
                           [id |-> s.counter, title |-> event_data.title,
                            description |-> event_data.description,
                            date |-> event_data.date]),
      reactions |-> [k \in DOMAIN s.reactions \cup {s.counter} |->
                        IF k = s.counter THEN ZeroTally ELSE s.reactions[k]],
      counter   |-> s.counter + 1 ]

RECURSIVE SeedLoop(_, _)
SeedLoop(s, i) ==
    IF i > Len(default_events) THEN s
    ELSE SeedLoop(SeedOne(s, default_events[i]), i + 1)

initialize_default_events ==
    SeedLoop([events |-> <<>>, reactions |-> <<>>, counter |-> 1], 1)

-----------------------------------------------------------------------------
(* Helpers used by the handlers *)

event_exists(event_id) ==
    \E i \in 1..Len(events_db) : events_db[i].id = event_id

RECURSIVE SumValues(_, _)
SumValues(f, keys) ==
    IF keys = {} THEN 0
    ELSE LET k == CHOOSE x \in keys : TRUE
         IN  f[k] + SumValues(f, keys \ {k})

TallySum(reactions) == SumValues(reactions, DOMAIN reactions)

RECURSIVE SumTallies(_, _)
SumTallies(db, keys) ==
    IF keys = {} THEN 0
    ELSE LET k == CHOOSE x \in keys : TRUE
         IN  TallySum(db[k]) + SumTallies(db, keys \ {k})

NotFound(op, req) ==
    [op |-> op, req |-> req, status |-> 404, body |-> [detail |-> "Event not found"]]

Ok(op, req, body) ==
    [op |-> op, req |-> req, status |-> 200, body |-> body]

-----------------------------------------------------------------------------
Init ==
    /\ events_db = initialize_default_events.events
    /\ reactions_db = initialize_default_events.reactions
    /\ event_id_counter = initialize_default_events.counter
    /\ feedback_db = <<>>
    /\ announcement_db = [message |-> DefaultAnnouncement]
    /\ feedback_id_counter = 1
    /\ resp = [op |-> "none", req |-> <<>>, status |-> 0, body |-> <<>>]
    /\ calls = [create_event |-> 0, add_reaction |-> 0, submit_feedback |-> 0]

-----------------------------------------------------------------------------
(* Handlers *)

(* Variant of create_event: the counter is not advanced. *)
create_event_no_increment(event) ==
    LET new_event == [id |-> event_id_counter, title |-> event.title,
                      description |-> event.description, date |-> event.date]
    IN  /\ events_db' = Append(events_db, new_event)
        /\ reactions_db' = [k \in DOMAIN reactions_db \cup {event_id_counter} |->
                              IF k = event_id_counter THEN ZeroTally
                              ELSE reactions_db[k]]
        /\ resp' = Ok("create_event", event, new_event)
        /\ UNCHANGED <<feedback_db, announcement_db, event_id_counter,
                       feedback_id_counter>>

(* Variant of create_event: no tally is stored for the new event. *)
create_event_no_tally(event) ==
    LET new_event == [id |-> event_id_counter, title |-> event.title,
                      description |-> event.description, date |-> event.date]
    IN  /\ events_db' = Append(events_db, new_event)
        /\ event_id_counter' = event_id_counter + 1
        /\ resp' = Ok("create_event", event, new_event)
        /\ UNCHANGED <<reactions_db, feedback_db, announcement_db,
                       feedback_id_counter>>

create_event(event) ==
    LET new_event == [id |-> event_id_counter, title |-> event.title,
                      description |-> event.description, date |-> event.date]
    IN  /\ events_db' = Append(events_db, new_event)
        /\ reactions_db' = [k \in DOMAIN reactions_db \cup {event_id_counter} |->
                              IF k = event_id_counter THEN ZeroTally
                              ELSE reactions_db[k]]
        /\ event_id_counter' = event_id_counter + 1
        /\ resp' = Ok("create_event", event, new_event)
        /\ UNCHANGED <<feedback_db, announcement_db, feedback_id_counter>>

list_events ==
    /\ resp' = Ok("list_events", <<>>, events_db)
    /\ UNCHANGED stores

get_event(event_id) ==
    /\ resp' = IF event_exists(event_id)
               THEN Ok("get_event", event_id,
                       events_db[CHOOSE i \in 1..Len(events_db) :
                                   /\ events_db[i].id = event_id
                                   /\ \A j \in 1..(i - 1) : events_db[j].id # event_id])
               ELSE NotFound("get_event", event_id)
    /\ UNCHANGED stores

(* Variant of add_reaction: the named category grows by 2. *)
add_reaction_twice(reaction_req) ==
    LET event_id == reaction_req.event_id
        ensured  == IF event_id \notin DOMAIN reactions_db
                    THEN [k \in DOMAIN reactions_db \cup {event_id} |->
                            IF k = event_id THEN ZeroTally ELSE reactions_db[k]]
                    ELSE reactions_db
        updated  == [ensured EXCEPT ![event_id][reaction_req.reaction] = @ + 2]
    IN  IF ~event_exists(event_id)
        THEN /\ resp' = NotFound("add_reaction", reaction_req)
             /\ UNCHANGED stores
        ELSE /\ reactions_db' = updated
             /\ resp' = Ok("add_reaction", reaction_req,
                           [event_id |-> event_id, reactions |-> updated[event_id]])
             /\ UNCHANGED <<events_db, feedback_db, announcement_db,
                            event_id_counter, feedback_id_counter>>

(* Variant of add_reaction: the tally is initialised whether or not it exists. *)
add_reaction_always_init(reaction_req) ==
    LET event_id == reaction_req.event_id
        ensured  == [k \in DOMAIN reactions_db \cup {event_id} |->
                        IF k = event_id THEN ZeroTally ELSE reactions_db[k]]
        updated  == [ensured EXCEPT ![event_id][reaction_req.reaction] = @ + 1]
    IN  IF ~event_exists(event_id)
        THEN /\ resp' = NotFound("add_reaction", reaction_req)
             /\ UNCHANGED stores
        ELSE /\ reactions_db' = updated
             /\ resp' = Ok("add_reaction", reaction_req,
                           [event_id |-> event_id, reactions |-> updated[event_id]])
             /\ UNCHANGED <<events_db, feedback_db, announcement_db,
                            event_id_counter, feedback_id_counter>>

add_reaction(reaction_req) ==
    LET event_id == reaction_req.event_id
        ensured  == IF event_id \notin DOMAIN reactions_db
                    THEN [k \in DOMAIN reactions_db \cup {event_id} |->
                            IF k = event_id THEN ZeroTally ELSE reactions_db[k]]
                    ELSE reactions_db
        updated  == [ensured EXCEPT ![event_id][reaction_req.reaction] = @ + 1]
    IN  IF ~event_exists(event_id)
        THEN /\ resp' = NotFound("add_reaction", reaction_req)
             /\ UNCHANGED stores
        ELSE /\ reactions_db' = updated
             /\ resp' = Ok("add_reaction", reaction_req,
                           [event_id |-> event_id, reactions |-> updated[event_id]])
             /\ UNCHANGED <<events_db, feedback_db, announcement_db,
                            event_id_counter, feedback_id_counter>>

get_reactions(event_id) ==
    /\ resp' = IF ~event_exists(event_id)
               THEN NotFound("get_reactions", event_id)
               ELSE Ok("get_reactions", event_id,
                       [event_id |-> event_id,
                        reactions |-> IF event_id \in DOMAIN reactions_db
                                      THEN reactions_db[event_id]
                                      ELSE ZeroTally])
    /\ UNCHANGED stores

(* Variant of submit_feedback: the identifier is taken before the existence check. *)
submit_feedback_id_first(feedback) ==
    LET new_feedback == [id |-> feedback_id_counter, event_id |-> feedback.event_id,
                         message |-> feedback.message, rating |-> feedback.rating]
    IN  IF ~event_exists(feedback.event_id)
        THEN /\ resp' = NotFound("submit_feedback", feedback)
             /\ feedback_id_counter' = feedback_id_counter + 1
             /\ UNCHANGED <<events_db, reactions_db, feedback_db, announcement_db,
                            event_id_counter>>
        ELSE /\ feedback_db' = Append(feedback_db, new_feedback)
             /\ feedback_id_counter' = feedback_id_counter + 1
             /\ resp' = Ok("submit_feedback", feedback, new_feedback)
             /\ UNCHANGED <<events_db, reactions_db, announcement_db, event_id_counter>>

(* Variant of submit_feedback: feedback draws its identifier from the event counter. *)
submit_feedback_event_counter(feedback) ==
    LET new_feedback == [id |-> event_id_counter, event_id |-> feedback.event_id,
                         message |-> feedback.message, rating |-> feedback.rating]
    IN  IF ~event_exists(feedback.event_id)
        THEN /\ resp' = NotFound("submit_feedback", feedback)
             /\ UNCHANGED stores
        ELSE /\ feedback_db' = Append(feedback_db, new_feedback)
             /\ event_id_counter' = event_id_counter + 1
             /\ resp' = Ok("submit_feedback", feedback, new_feedback)
             /\ UNCHANGED <<events_db, reactions_db, announcement_db,
                            feedback_id_counter>>

submit_feedback(feedback) ==
    LET new_feedback == [id |-> feedback_id_counter, event_id |-> feedback.event_id,
                         message |-> feedback.message, rating |-> feedback.rating]
    IN  IF ~event_exists(feedback.event_id)
        THEN /\ resp' = NotFound("submit_feedback", feedback)
             /\ UNCHANGED stores
        ELSE /\ feedback_db' = Append(feedback_db, new_feedback)
             /\ feedback_id_counter' = feedback_id_counter + 1
             /\ resp' = Ok("submit_feedback", feedback, new_feedback)
             /\ UNCHANGED <<events_db, reactions_db, announcement_db, event_id_counter>>

list_all_feedback ==
    /\ resp' = Ok("list_all_feedback", <<>>, feedback_db)
    /\ UNCHANGED stores

(* Variant of list_event_feedback: an unknown event is rejected as the other handlers do. *)
list_event_feedback_checked(event_id) ==
    /\ resp' = IF ~event_exists(event_id)
               THEN NotFound("list_event_feedback", event_id)
               ELSE Ok("list_event_feedback", event_id,
                       SelectSeq(feedback_db, LAMBDA f : f.event_id = event_id))
    /\ UNCHANGED stores

list_event_feedback(event_id) ==
    /\ resp' = Ok("list_event_feedback", event_id,
                  SelectSeq(feedback_db, LAMBDA f : f.event_id = event_id))
    /\ UNCHANGED stores

(* Variant of create_announcement: an announcement already set by a client is kept. *)
create_announcement_once(announcement) ==
    /\ announcement_db' = IF announcement_db.message = DefaultAnnouncement
                          THEN [announcement_db EXCEPT !.message = announcement.message]
                          ELSE announcement_db
    /\ resp' = Ok("create_announcement", announcement, announcement_db')
    /\ UNCHANGED <<events_db, reactions_db, feedback_db,
                   event_id_counter, feedback_id_counter>>

create_announcement(announcement) ==
    /\ announcement_db' = [announcement_db EXCEPT !.message = announcement.message]
    /\ resp' = Ok("create_announcement", announcement, announcement_db')
    /\ UNCHANGED <<events_db, reactions_db, feedback_db,
                   event_id_counter, feedback_id_counter>>

get_announcement ==
    /\ resp' = Ok("get_announcement", <<>>, announcement_db)
    /\ UNCHANGED stores

root ==
    /\ resp' = Ok("root", <<>>,
                  [status |-> "ok", message |-> "College PR Event Dashboard API"])
    /\ UNCHANGED stores

(* Variant of get_stats: total_reactions counts the tallies, not their counts. *)
get_stats_counts_tallies ==
    /\ resp' = Ok("get_stats", <<>>,
                  [total_events |-> Len(events_db),
                   total_feedback |-> Len(feedback_db),
                   total_reactions |-> Cardinality(DOMAIN reactions_db)])
    /\ UNCHANGED stores

get_stats ==
    /\ resp' = Ok("get_stats", <<>>,
                  [total_events |-> Len(events_db),
                   total_feedback |-> Len(feedback_db),
                   total_reactions |-> SumTallies(reactions_db, DOMAIN reactions_db)])
    /\ UNCHANGED stores

-----------------------------------------------------------------------------
(* Requests arriving at the service *)

Writes == calls.create_event + calls.add_reaction + calls.submit_feedback

Counted(op) ==
    calls' = IF resp'.status = 200 THEN [calls EXCEPT ![op] = @ + 1] ELSE calls

PostEvent ==
    /\ Writes < MaxWrites
    /\ \E event \in EventInputs : create_event(event)
    /\ Counted("create_event")

GetEvents == list_events /\ UNCHANGED calls

GetEvent == (\E event_id \in ReqEventIds : get_event(event_id)) /\ UNCHANGED calls

PostReaction ==
    /\ Writes < MaxWrites
    /\ \E event_id \in ReqEventIds, reaction \in ReactionType :
          add_reaction([event_id |-> event_id, reaction |-> reaction])
    /\ Counted("add_reaction")

GetReactions == (\E event_id \in ReqEventIds : get_reactions(event_id)) /\ UNCHANGED calls

PostFeedback ==
    /\ Writes < MaxWrites
    /\ \E event_id \in ReqEventIds, f \in FeedbackInputs :
          submit_feedback([event_id |-> event_id, message |-> f.message,
                           rating |-> f.rating])
    /\ Counted("submit_feedback")

GetAllFeedback == list_all_feedback /\ UNCHANGED calls

GetEventFeedback ==
    (\E event_id \in ReqEventIds : list_event_feedback(event_id)) /\ UNCHANGED calls

PostAnnouncement ==
    /\ \E m \in AnnouncementInputs : create_announcement([message |-> m])
    /\ UNCHANGED calls

GetAnnouncement == get_announcement /\ UNCHANGED calls

GetRoot == root /\ UNCHANGED calls

GetStats == get_stats /\ UNCHANGED calls

Next ==
    \/ PostEvent
    \/ GetEvents
    \/ GetEvent
    \/ PostReaction
    \/ GetReactions
    \/ PostFeedback
    \/ GetAllFeedback
    \/ GetEventFeedback
    \/ PostAnnouncement
    \/ GetAnnouncement
    \/ GetRoot
    \/ GetStats

Spec == Init /\ [][Next]_vars

-----------------------------------------------------------------------------
(* Properties *)

EventIds == { events_db[i].id : i \in 1..Len(events_db) }

Succeeded(op) == resp.op = op /\ resp.status = 200

\* the event identifier a reaction or feedback request names
ReqEventId(r) == IF r.op = "get_reactions" THEN r.req ELSE r.req.event_id

SeededEvents ==
    /\ Len(events_db) = 3
    /\ events_db[1].id = 1 /\ events_db[1].title = "KMIT Evening Saanjh"
    /\ events_db[2].id = 2 /\ events_db[2].title = "Patang Utsav"
    /\ events_db[3].id = 3 /\ events_db[3].title = "V-MUN"

\* the i-th record of feedback_db, counted among those of event x only
NthOfEvent(x, k) ==
    LET idx == { i \in 1..Len(feedback_db) : feedback_db[i].event_id = x }
    IN  feedback_db[CHOOSE i \in idx : Cardinality({ j \in idx : j <= i }) = k]

(* C1: the k-th successful create-event call returns identifier 3+k (the     *)
(* first returns 4); the identifiers in the Event Store are strictly         *)
(* increasing in insertion order, so no two events share an identifier.      *)
C1_EventIdsIncrease ==
    /\ Succeeded("create_event") => resp.body.id = 3 + calls.create_event
    /\ \A i, j \in 1..Len(events_db) : i < j => events_db[i].id < events_db[j].id
    /\ event_id_counter \notin EventIds

C1_Witness ==
    /\ Succeeded("create_event")
    /\ calls.create_event = 3
    /\ resp.body.id = 6
    /\ events_db[4].title = events_db[5].title

(* C2: before any handler has run, the Event Store holds exactly the three   *)
(* seeded events with identifiers 1, 2, 3 and the fixed titles in order,     *)
(* each has a stored all-zero tally, the Feedback Store is empty and the     *)
(* default announcement is installed; list-events served on the seeded       *)
(* stores returns exactly those three records.                               *)
C2_Bootstrap ==
    /\ resp.op = "none" =>
          /\ SeededEvents
          /\ DOMAIN reactions_db = {1, 2, 3}
          /\ \A e \in {1, 2, 3} :
                /\ DOMAIN reactions_db[e] = ReactionType
                /\ \A c \in ReactionType : reactions_db[e][c] = 0
          /\ feedback_db = <<>>
          /\ announcement_db.message = DefaultAnnouncement
          /\ event_id_counter = 4
          /\ feedback_id_counter = 1
    /\ (resp.op = "list_events" /\ calls.create_event = 0) =>
          /\ resp.status = 200
          /\ Len(resp.body) = 3
          /\ \A i \in 1..3 : resp.body[i].id = i
          /\ resp.body[1].title = "KMIT Evening Saanjh"
          /\ resp.body[2].title = "Patang Utsav"
          /\ resp.body[3].title = "V-MUN"
          /\ \A i \in 1..3 : i \in DOMAIN reactions_db
    /\ (resp.op = "get_reactions" /\ calls.add_reaction = 0 /\ resp.req \in {1, 2, 3}) =>
          /\ resp.status = 200
          /\ \A c \in ReactionType : resp.body.reactions[c] = 0

C2_Witness ==
    /\ resp.op = "list_events"
    /\ Writes = 0
    /\ announcement_db.message = DefaultAnnouncement
    /\ Len(resp.body) = 3

(* C3: add-reaction(e, c) on an existing event succeeds, raises the count of *)
(* c in e's tally by exactly 1, leaves the other categories of e and every   *)
(* other tally unchanged and returns the updated tally; a get-reactions(e)   *)
(* served right after it returns that same tally.                            *)
C3_AddReaction ==
    [][ /\ (resp'.op = "add_reaction" /\ event_exists(resp'.req.event_id)) =>
              LET e == resp'.req.event_id
                  c == resp'.req.reaction
                  old == IF e \in DOMAIN reactions_db THEN reactions_db[e] ELSE ZeroTally
              IN  /\ resp'.status = 200
                  /\ DOMAIN reactions_db' = DOMAIN reactions_db \cup {e}
                  /\ reactions_db'[e][c] = old[c] + 1
                  /\ \A d \in ReactionType \ {c} : reactions_db'[e][d] = old[d]
                  /\ \A k \in DOMAIN reactions_db \ {e} : reactions_db'[k] = reactions_db[k]
                  /\ resp'.body.event_id = e
                  /\ resp'.body.reactions = reactions_db'[e]
        /\ (Succeeded("add_reaction") /\ resp'.op = "get_reactions"
              /\ resp'.req = resp.req.event_id) =>
              /\ resp'.status = 200
              /\ resp'.body = resp.body
      ]_vars

C3_Witness ==
    /\ Succeeded("add_reaction")
    /\ resp.body.reactions[resp.req.reaction] = 3
    /\ \E d \in ReactionType \ {resp.req.reaction} : resp.body.reactions[d] = 1

(* C4: add-reaction, get-reactions and submit-feedback naming an event that  *)
(* is not in the Event Store answer 404 and leave every store and both       *)
(* identifier counters as they were.                                         *)
C4_NotFoundNoChange ==
    [][ (resp'.op \in {"add_reaction", "get_reactions", "submit_feedback"}
           /\ ~event_exists(ReqEventId(resp'))) =>
              /\ resp'.status = 404
              /\ UNCHANGED stores
              /\ UNCHANGED calls
      ]_vars

C4_Witness ==
    /\ resp.op = "submit_feedback"
    /\ resp.status = 404
    /\ resp.req.event_id = 4
    /\ Len(feedback_db) = 2
    /\ calls.add_reaction = 1

(* C5: the k-th successful submit-feedback returns feedback identifier k;    *)
(* the stored feedback identifiers are 1, 2, ... in insertion order whatever *)
(* the number of events created.                                             *)
C5_FeedbackIds ==
    /\ Succeeded("submit_feedback") => resp.body.id = calls.submit_feedback
    /\ \A i \in 1..Len(feedback_db) : feedback_db[i].id = i
    /\ feedback_id_counter = Len(feedback_db) + 1

C5_Witness ==
    /\ Succeeded("submit_feedback")
    /\ resp.body.id = 2
    /\ calls.create_event = 2
    /\ feedback_db[1].event_id = 4

(* C6: list-event-feedback(x) always succeeds and returns exactly the        *)
(* records of list-all-feedback() whose event_id is x, in insertion order;   *)
(* for an x that is no event it returns the empty sequence.                  *)
C6_EventFeedbackIsFilter ==
    /\ resp.op = "list_all_feedback" => resp.status = 200 /\ resp.body = feedback_db
    /\ resp.op = "list_event_feedback" =>
          LET x == resp.req
              n == Cardinality({ i \in 1..Len(feedback_db) : feedback_db[i].event_id = x })
          IN  /\ resp.status = 200
              /\ Len(resp.body) = n
              /\ \A k \in 1..n : resp.body[k] = NthOfEvent(x, k)
              /\ x \notin EventIds => resp.body = <<>>

C6_Witness ==
    /\ resp.op = "list_event_feedback"
    /\ resp.req = 1
    /\ Len(feedback_db) = 3
    /\ feedback_db[2].event_id = 4
    /\ Len(resp.body) = 2
    /\ resp.body[2].id = 3

(* C7: get-stats reports total_events = 3 + successful create-event calls,   *)
(* total_feedback = successful submit-feedback calls and total_reactions =   *)
(* successful add-reaction calls.                                            *)
C7_Stats ==
    resp.op = "get_stats" =>
       /\ resp.status = 200
       /\ resp.body.total_events = 3 + calls.create_event
       /\ resp.body.total_feedback = calls.submit_feedback
       /\ resp.body.total_reactions = calls.add_reaction

C7_Witness ==
    /\ resp.op = "get_stats"
    /\ resp.body.total_events = 4
    /\ resp.body.total_feedback = 1
    /\ resp.body.total_reactions = 2
    /\ 4 \in DOMAIN reactions_db
    /\ reactions_db[4]["CLAP"] = 1

(* C8: every stored tally has exactly the four reaction symbols as keys with *)
(* natural-number counts, and in every step every count of every stored      *)
(* tally stays the same or grows by 1.                                       *)
C8_TallyShape ==
    /\ [](\A e \in DOMAIN reactions_db :
             /\ DOMAIN reactions_db[e] = ReactionType
             /\ \A c \in ReactionType : reactions_db[e][c] \in Nat)
    /\ [][ \A e \in DOMAIN reactions_db :
             /\ e \in DOMAIN reactions_db'
             /\ \A c \in ReactionType :
                   reactions_db'[e][c] \in { reactions_db[e][c], reactions_db[e][c] + 1 }
         ]_vars

C8_Witness ==
    /\ 4 \in DOMAIN reactions_db
    /\ reactions_db[1]["FIRE"] = 2
    /\ reactions_db[1]["HEART"] = 1
    /\ reactions_db[4]["WOW"] = 0
    /\ resp.op = "create_event"

(* C9: set-announcement(m) succeeds, leaves the announcement record holding  *)
(* m and nothing else, and changes no other store or counter; a              *)
(* get-announcement served right after it returns m; the slot always holds   *)
(* one record.                                                               *)
C9_Announcement ==
    /\ [](DOMAIN announcement_db = {"message"})
    /\ [][ /\ resp'.op = "create_announcement" =>
                 /\ resp'.status = 200
                 /\ announcement_db' = [message |-> resp'.req.message]
                 /\ resp'.body = announcement_db'
                 /\ UNCHANGED <<events_db, reactions_db, feedback_db,
                                event_id_counter, feedback_id_counter>>
           /\ (resp.op = "create_announcement" /\ resp'.op = "get_announcement") =>
                 /\ resp'.status = 200
                 /\ resp'.body = [message |-> resp.req.message]
         ]_vars

C9_Witness ==
    /\ resp.op = "get_announcement"
    /\ resp.body.message = "Hello"
    /\ Writes = 3

(* C10: every key of the Reaction Store and the event_id of every feedback   *)
(* record is the identifier of a stored event, and every stored event has a  *)
(* stored tally.                                                             *)
C10_ReferentialIntegrity ==
    /\ DOMAIN reactions_db \subseteq EventIds
    /\ \A i \in 1..Len(feedback_db) : feedback_db[i].event_id \in EventIds
    /\ \A i \in 1..Len(events_db) : events_db[i].id \in DOMAIN reactions_db

C10_Witness ==
    /\ Len(events_db) = 5
    /\ {4, 5} \subseteq DOMAIN reactions_db
    /\ \E i \in 1..Len(feedback_db) : feedback_db[i].event_id = 4
    /\ reactions_db[4]["FIRE"] = 1

=============================================================================
